---- MODULE Spec2Model ----
(***************************************************************************)
(* Model of django-verification: src/verification/models.py (keys, key     *)
(* groups, the claim function, the manager's query filters) and the demo   *)
(* signup view src/demo/projectapp/views.py.                               *)
(*                                                                         *)
(* The database is shared by all request handlers.  A handler works on an  *)
(* in-memory copy of a row; Model.save() writes every field of that copy   *)
(* back (UPDATE by primary key, INSERT when the row is gone).  Nothing in  *)
(* models.py opens a transaction or locks a row, so each database          *)
(* statement is one atomic step and handlers interleave between them.      *)
(***************************************************************************)
EXTENDS Integers, Sequences, FiniteSets, TLC

\* Python None / SQL NULL: in a text or reference column, and in an integer
\* or datetime column (datetimes are minutes on the clock, never negative).
None == "None"
NoneInt == -9

\* Bounds of the model.
MaxClock == 1
MaxOps == 3

Procs == {1, 2}
KeyStrings == {"k1", "k2"}
Claimants == {"u1", "u2"}
GroupNames == {"activate_account"}
TtlValues == {NoneInt, 0, 1}
GeneratorNames == {"md5-hex", "unregistered"}

\* The receivers of key_claimed, in order of registration: the demo's
\* user_created_key_claimed and one more.
Receivers == <<"user_created_key_claimed", "other_receiver">>

\* verification.generators.registry.available()
Registered == {"md5-hex"}

VARIABLES
    clock,        \* tznow()
    groups,       \* table KeyGroup, by its primary key name
    store,        \* table Key: the rows, by their unique key string
    nextId,       \* the table's autoincrement primary key
    pc,           \* position of each request handler
    loc,          \* a handler's locals: now, keystring, claimant, key object,
                  \* and (history) the key as claim()'s lookup found it
    ret,          \* outcome of the handler's last operation, and its key string
    events,       \* key_claimed signals sent, in order
    created_ttl,  \* history: ttl of the group a key was generated with, by id
    ops           \* number of handlers started so far

vars == <<clock, groups, store, nextId, pc, loc, ret, events, created_ttl, ops>>

NoRet == [res |-> None, key |-> None]

\* No group object loaded, no key object.
NoGroup == [name |-> None, ttl |-> NoneInt, generator |-> None, has_fact |-> FALSE]
NoKey ==
    [id |-> NoneInt, key |-> None, group |-> None, fact |-> None, pub_date |-> NoneInt,
     expires |-> NoneInt, claimed |-> NoneInt, claimed_by |-> None]
NoLoc ==
    [op |-> None, now |-> NoneInt, keystring |-> None, claimant |-> None,
     key |-> NoKey, grp |-> NoGroup, found |-> NoKey]

----------------------------------------------------------------------------
\* Python truth value of an IntegerField value: None and 0 are false.
Truthy(v) == v # NoneInt /\ v # 0

\* pub_date + timedelta(minutes=ttl)
AddMinutes(t, ttl) == t + ttl

\* The row a key object is written as (every column but the unique key).
RowOf(key) ==
    [id |-> key.id, group |-> key.group, fact |-> key.fact,
     pub_date |-> key.pub_date, expires |-> key.expires,
     claimed |-> key.claimed, claimed_by |-> key.claimed_by]

\* The key object Key.objects.get(key=k) builds from a row.
KeyOf(k, row) ==
    [id |-> row.id, key |-> k, group |-> row.group, fact |-> row.fact,
     pub_date |-> row.pub_date, expires |-> row.expires,
     claimed |-> row.claimed, claimed_by |-> row.claimed_by]

\* models.Model.save(): is there a row with the object's primary key?
RowExists(st, key) == key.key \in DOMAIN st /\ st[key.key].id = key.id

\* models.Model.save() can insert: the unique index on "key" is free.
CanInsert(st, key) == key.key \notin DOMAIN st

\* The key object after models.Model.save(): an INSERT assigns pub_date
\* (auto_now_add), an UPDATE leaves the object alone.
SavedKey(st, key, now, id) ==
    IF RowExists(st, key) THEN key
    ELSE [key EXCEPT !.pub_date = now, !.id = IF key.id = NoneInt THEN id ELSE key.id]

\* models.Model.save(): UPDATE the row with the object's primary key, or
\* INSERT it when there is none.  An INSERT on a taken key string raises
\* IntegrityError and writes nothing.
DbSave(st, key, now, id) ==
    IF RowExists(st, key) \/ CanInsert(st, key)
    THEN [k \in DOMAIN st \cup {key.key} |->
             IF k = key.key THEN RowOf(SavedKey(st, key, now, id)) ELSE st[k]]
    ELSE st

SaveFails(st, key) == ~RowExists(st, key) /\ ~CanInsert(st, key)

----------------------------------------------------------------------------
\* claim() with the claimed check before the expiry check.
ClaimCheckClaimedFirst(st, k, now) ==
    IF k \notin DOMAIN st THEN "DoesNotExist"
    ELSE IF st[k].claimed # NoneInt THEN "AlreadyClaimed"
    ELSE IF st[k].expires # NoneInt /\ st[k].expires <= now THEN "Expired"
    ELSE "ok"

\* claim() with a key still claimable at the minute it expires.
ClaimCheckStrict(st, k, now) ==
    IF k \notin DOMAIN st THEN "DoesNotExist"
    ELSE IF st[k].expires # NoneInt /\ st[k].expires < now THEN "Expired"
    ELSE IF st[k].claimed # NoneInt THEN "AlreadyClaimed"
    ELSE "ok"

\* claim() reporting a key that does not exist as expired.
ClaimCheckMissingExpired(st, k, now) ==
    IF k \notin DOMAIN st THEN "Expired"
    ELSE IF st[k].expires # NoneInt /\ st[k].expires <= now THEN "Expired"
    ELSE IF st[k].claimed # NoneInt THEN "AlreadyClaimed"
    ELSE "ok"

\* claim(), lines 34-41: the outcome of the lookup of k and of the checks.
ClaimCheck(st, k, now) ==
    IF k \notin DOMAIN st THEN "DoesNotExist"
    ELSE IF st[k].expires # NoneInt /\ st[k].expires <= now THEN "Expired"
    ELSE IF st[k].claimed # NoneInt THEN "AlreadyClaimed"
    ELSE "ok"

\* KeyMixin.expired()
expired(st, now) ==
    {k \in DOMAIN st : st[k].expires # NoneInt /\ st[k].expires <= now}

\* available() with expires__gte in place of expires__gt.
availableGte(st, now) ==
    {k \in DOMAIN st :
        /\ (st[k].expires # NoneInt /\ st[k].expires >= now) \/ st[k].expires = NoneInt
        /\ st[k].claimed = NoneInt}

\* KeyMixin.available()
available(st, now) ==
    {k \in DOMAIN st :
        /\ (st[k].expires # NoneInt /\ st[k].expires > now) \/ st[k].expires = NoneInt
        /\ st[k].claimed = NoneInt}

\* KeyMixin.claimed()
claimed(st) ==
    {k \in DOMAIN st : st[k].claimed # NoneInt}

\* delete_expired() sparing the claimed keys.
ExpiresLteUnclaimed(st, now) ==
    {k \in DOMAIN st : st[k].expires # NoneInt /\ st[k].expires <= now /\ st[k].claimed = NoneInt}

\* The rows delete_expired's filter(expires__lte=now) selects.
ExpiresLte(st, now) ==
    {k \in DOMAIN st : st[k].expires # NoneInt /\ st[k].expires <= now}

----------------------------------------------------------------------------
Init ==
    /\ clock = 0
    /\ groups \in [GroupNames -> [name : GroupNames, ttl : TtlValues,
                                   generator : GeneratorNames, has_fact : BOOLEAN]]
    /\ \A g \in GroupNames : groups[g].name = g
    /\ store = [k \in {} |-> RowOf(NoKey)]
    /\ nextId = 1
    /\ pc = [p \in Procs |-> "idle"]
    /\ loc = [p \in Procs |-> NoLoc]
    /\ ret = [p \in Procs |-> NoRet]
    /\ events = <<>>
    /\ created_ttl = <<>>
    /\ ops = 0

\* Time passes.
Tick ==
    /\ clock < MaxClock
    /\ clock' = clock + 1
    /\ UNCHANGED <<groups, store, nextId, pc, loc, ret, events, created_ttl, ops>>

\* An administrator edits KeyGroup.ttl.
SetTtl(g, t) ==
    /\ groups[g].ttl # t
    /\ ops < MaxOps
    /\ ops' = ops + 1
    /\ groups' = [groups EXCEPT ![g].ttl = t]
    /\ UNCHANGED <<clock, store, nextId, pc, loc, ret, events, created_ttl>>

\* Handler p may take the next request: the handlers are interchangeable, so
\* the first idle one does.
Accepts(p) == pc[p] = "idle" /\ \A q \in Procs : (q < p) => pc[q] # "idle"

\* A handler returns (or raises) with outcome r.
Return(p, r) ==
    /\ pc' = [pc EXCEPT ![p] = "idle"]
    /\ loc' = [loc EXCEPT ![p] = NoLoc]
    /\ ret' = [ret EXCEPT ![p] = [res |-> r, key |-> IF loc[p].op = "claim" THEN loc[p].keystring
                                                     ELSE loc[p].key.key]]

\* A handler moves on to label with locals l.
Goto(p, label, l) ==
    /\ pc' = [pc EXCEPT ![p] = label]
    /\ loc' = [loc EXCEPT ![p] = l]
    /\ ret' = [ret EXCEPT ![p] = NoRet]

\* Where key.save() returns to in the handler that called it.
AfterSave(p, l) ==
    CASE l.op = "claim" -> Goto(p, "claim_send", l)
      [] l.op = "generate" -> Return(p, "generated")
      [] l.op = "form_valid" -> Goto(p, "fv_save", l)
      [] l.op = "fv_save" -> Return(p, "generated")

\* AbstractKey.save(), lines 165-168: the first write, then the expiry from
\* the ttl of key.group.  key.group is the group object generate() was
\* given, or the group's row, fetched on first use, for a key that came
\* from the table.
KeySave1(p) ==
    /\ pc[p] = "save1"
    /\ LET key == loc[p].key
           grp == IF loc[p].grp = NoGroup THEN groups[key.group] ELSE loc[p].grp
           saved == SavedKey(store, key, clock, nextId)
       IN IF SaveFails(store, key)
          THEN /\ Return(p, "IntegrityError")
               /\ UNCHANGED <<store, nextId, created_ttl>>
          ELSE /\ store' = DbSave(store, key, clock, nextId)
               /\ nextId' = IF key.id = NoneInt THEN nextId + 1 ELSE nextId
               /\ created_ttl' = IF key.id = NoneInt
                                 THEN Append(created_ttl, grp.ttl)
                                 ELSE created_ttl
               /\ IF Truthy(grp.ttl)
                  THEN Goto(p, "save2", [loc[p] EXCEPT !.grp = grp,
                            !.key = [saved EXCEPT !.expires = AddMinutes(saved.pub_date, grp.ttl)]])
                  ELSE AfterSave(p, [loc[p] EXCEPT !.grp = grp, !.key = saved])
    /\ UNCHANGED <<clock, groups, events, ops>>

\* AbstractKey.save(), line 169: the second write.
KeySave2(p) ==
    /\ pc[p] = "save2"
    /\ LET key == loc[p].key IN
       IF SaveFails(store, key)
       THEN /\ Return(p, "IntegrityError")
            /\ UNCHANGED store
       ELSE /\ store' = DbSave(store, key, clock, nextId)
            /\ AfterSave(p, [loc[p] EXCEPT !.key = SavedKey(store, key, clock, nextId)])
    /\ UNCHANGED <<clock, groups, nextId, events, created_ttl, ops>>

\* claim(), line 33: now = tznow()
ClaimBegin(p, k, c) ==
    /\ Accepts(p)
    /\ ops < MaxOps
    /\ ops' = ops + 1
    /\ Goto(p, "claim_get", [NoLoc EXCEPT !.op = "claim", !.now = clock,
                                          !.keystring = k, !.claimant = c])
    /\ UNCHANGED <<clock, groups, store, nextId, events, created_ttl>>

\* claim() deleting the key it finds expired.
ClaimGetPurge(p) ==
    /\ pc[p] = "claim_get"
    /\ LET k == loc[p].keystring
           r == ClaimCheck(store, k, loc[p].now)
       IN /\ IF r # "ok"
             THEN Return(p, r)
             ELSE Goto(p, "save1",
                       [loc[p] EXCEPT !.found = KeyOf(k, store[k]),
                                      !.key = [KeyOf(k, store[k]) EXCEPT
                                                  !.claimed_by = loc[p].claimant,
                                                  !.claimed = loc[p].now]])
          /\ store' = IF r = "Expired"
                      THEN [j \in DOMAIN store \ {k} |-> store[j]]
                      ELSE store
    /\ UNCHANGED <<clock, groups, nextId, events, created_ttl, ops>>

\* claim(), lines 34-44: the lookup, the checks, the assignments to the key
\* object and the call of key.save().
ClaimGet(p) ==
    /\ pc[p] = "claim_get"
    /\ LET k == loc[p].keystring
           r == ClaimCheck(store, k, loc[p].now)
       IN IF r # "ok"
          THEN Return(p, r)
          ELSE Goto(p, "save1",
                    [loc[p] EXCEPT !.found = KeyOf(k, store[k]),
                                   !.key = [KeyOf(k, store[k]) EXCEPT
                                               !.claimed_by = loc[p].claimant,
                                               !.claimed = loc[p].now]])
    /\ UNCHANGED <<clock, groups, store, nextId, events, created_ttl, ops>>

Range(f) == {f[i] : i \in DOMAIN f}

\* Signal.send(): the receivers are called in order and the first exception
\* ends the dispatch.
Send(failing) ==
    LET first == {i \in 1..Len(Receivers) :
                    Receivers[i] \in failing /\ \A j \in 1..(i - 1) : Receivers[j] \notin failing}
    IN [i \in 1..(IF first = {} THEN Len(Receivers) ELSE (CHOOSE i \in first : TRUE) - 1) |-> "ok"]

\* key_claimed.send_robust(), line 45: every receiver is called, in order of
\* registration; an exception a receiver raises is caught and becomes its
\* response.  failing is the set of receivers that raise.
SendRobust(failing) ==
    [i \in 1..Len(Receivers) |-> IF Receivers[i] \in failing THEN "error" ELSE "ok"]

\* The receivers that raise during one dispatch when handlers interleave:
\* none, or the demo's user_created_key_claimed (its user.save() can fail)
\* while the receiver registered after it succeeds.
Raising == {{}, {Receivers[1]}}

\* claim(), lines 45-46: send the signal, return the key.
ClaimSend(p, failing) ==
    /\ pc[p] = "claim_send"
    /\ events' = Append(events, [sender |-> loc[p].key, claimant |-> loc[p].claimant,
                                 group |-> loc[p].grp, responses |-> SendRobust(failing)])
    /\ Return(p, "ok")
    /\ UNCHANGED <<clock, groups, store, nextId, created_ttl, ops>>

\* The key object Key(group=group, key=keystring) of generate(), line 182.
NewKey(g, k) ==
    [NoKey EXCEPT !.key = k, !.group = g]

\* KeyGroup.get_generator(): the generator registered under the group's
\* generator name; None, and no error, when there is none.
get_generator(grp) == IF grp.generator \in Registered THEN grp.generator ELSE None

\* AbstractKey.generate(), lines 179-183, called with the group row g as the
\* caller has just read it; k is the string the generator produces.
\* get_generator() returns None for an unregistered name and line 180 then
\* calls None.
GenerateCall(p, g, k, op, u) ==
    /\ Accepts(p)
    /\ ops < MaxOps
    /\ ops' = ops + 1
    /\ IF get_generator(groups[g]) # None
       THEN Goto(p, "save1", [NoLoc EXCEPT !.op = op, !.claimant = u,
                                     !.key = NewKey(g, k), !.grp = groups[g]])
       ELSE Return(p, "TypeError")
    /\ UNCHANGED <<clock, groups, store, nextId, events, created_ttl>>

Generate(p, g, k) == GenerateCall(p, g, k, "generate", None)

\* AbstractCreateUser.form_valid(), line 108: Key.generate(activate_account)
\* for the user u the form has just created.
FormValid(p, k, u) == GenerateCall(p, "activate_account", k, "form_valid", u)

\* AbstractCreateUser.form_valid(), lines 109-111: key.claimed_by = the new
\* user, key.save().
FormValidSave(p) ==
    /\ pc[p] = "fv_save"
    /\ Goto(p, "save1", [loc[p] EXCEPT !.op = "fv_save",
                                       !.key = [loc[p].key EXCEPT !.claimed_by = loc[p].claimant]])
    /\ UNCHANGED <<clock, groups, store, nextId, events, created_ttl, ops>>

\* KeyMixin.delete_expired()
DeleteExpired ==
    /\ ops < MaxOps
    /\ ops' = ops + 1
    /\ store' = [k \in DOMAIN store \ ExpiresLte(store, clock) |-> store[k]]
    /\ UNCHANGED <<clock, groups, nextId, pc, loc, ret, events, created_ttl>>

\* No handler is in the middle of a request.
Quiet == \A p \in Procs : pc[p] = "idle"

Next ==
    \/ Tick
    \/ \E g \in GroupNames, t \in TtlValues : SetTtl(g, t)
    \/ \E p \in Procs, k \in KeyStrings, c \in Claimants : ClaimBegin(p, k, c)
    \/ \E p \in Procs : ClaimGet(p)
    \/ \E p \in Procs, failing \in Raising : ClaimSend(p, failing)
    \/ \E p \in Procs : KeySave1(p)
    \/ \E p \in Procs : KeySave2(p)
    \/ \E p \in Procs, g \in GroupNames, k \in KeyStrings : Generate(p, g, k)
    \/ \E p \in Procs, k \in KeyStrings : FormValid(p, k, "u1")
    \/ \E p \in Procs : FormValidSave(p)
    \/ DeleteExpired

\* The groups as the demo creates them: get_or_create() leaves has_fact at the
\* field's default, False.
DefaultInit == Init /\ \A g \in GroupNames : groups[g].has_fact = FALSE

Spec == DefaultInit /\ [][Next]_vars

\* Sequential execution: one request at a time, each handled to its end.
SeqSetTtl(g, t) == Quiet /\ SetTtl(g, t)

SeqDeleteExpired == Quiet /\ DeleteExpired

SeqNext ==
    \/ Tick
    \/ \E g \in GroupNames, t \in TtlValues : SeqSetTtl(g, t)
    \/ \E k \in KeyStrings, c \in Claimants : ClaimBegin(1, k, c)
    \/ ClaimGet(1)
    \/ \E failing \in SUBSET Range(Receivers) : ClaimSend(1, failing)
    \/ KeySave1(1)
    \/ KeySave2(1)
    \/ \E g \in GroupNames, k \in KeyStrings : Generate(1, g, k)
    \/ \E k \in KeyStrings : FormValid(1, k, "u1")
    \/ FormValidSave(1)
    \/ SeqDeleteExpired

SeqSpec == Init /\ [][SeqNext]_vars

\* A claim and the maintenance sweep: one key, stored as generate() stores it
\* at minute 0, then one handler claiming while delete_expired() runs and
\* time passes.
SweepInit ==
    /\ clock = 0
    /\ groups \in [GroupNames -> [name : GroupNames, ttl : TtlValues,
                                   generator : Registered, has_fact : {FALSE}]]
    /\ \A g \in GroupNames : groups[g].name = g
    /\ \E g \in GroupNames :
          /\ store = [k \in {"k1"} |->
                        RowOf([NewKey(g, k) EXCEPT
                                  !.id = 1, !.pub_date = 0,
                                  !.expires = IF Truthy(groups[g].ttl)
                                              THEN AddMinutes(0, groups[g].ttl)
                                              ELSE NoneInt])]
          /\ created_ttl = <<groups[g].ttl>>
    /\ nextId = 2
    /\ pc = [p \in Procs |-> "idle"]
    /\ loc = [p \in Procs |-> NoLoc]
    /\ ret = [p \in Procs |-> NoRet]
    /\ events = <<>>
    /\ ops = 0

SweepNext ==
    \/ Tick
    \/ \E k \in KeyStrings, c \in Claimants : ClaimBegin(1, k, c)
    \/ ClaimGet(1)
    \/ \E failing \in SUBSET Range(Receivers) : ClaimSend(1, failing)
    \/ KeySave1(1)
    \/ KeySave2(1)
    \/ DeleteExpired

SweepSpec == SweepInit /\ [][SweepNext]_vars

----------------------------------------------------------------------------
\* Handler p finishes the lookup and the checks of claim() in this step.
Checks(p) == pc[p] = "claim_get" /\ pc'[p] # "claim_get"

\* The key_claimed signals sent for the key with primary key id.
EventsOf(id) == {i \in 1..Len(events) : events[i].sender.id = id}

\* C1: of the concurrent claims of one unclaimed, unexpired key exactly one
\* succeeds: no two claims of the same key are both past their checks and
\* their save, each about to return the key.
C1_NoDoubleClaim ==
    \A p, q \in Procs :
        (p # q /\ pc[p] = "claim_send" /\ pc[q] = "claim_send")
            => loc[p].key.id # loc[q].key.id

\* C2: once claimed and claimed_by of a key are set, no step changes or clears
\* either of them.
C2_ClaimWrittenOnce ==
    [][\A k \in DOMAIN store \cap DOMAIN store' :
          (/\ store[k].claimed # NoneInt
           /\ store[k].claimed_by # None
           /\ store'[k].id = store[k].id)
          => (/\ store'[k].claimed = store[k].claimed
              /\ store'[k].claimed_by = store[k].claimed_by)]_vars

\* The row of k is past its expiry at the time now.
IsExpired(k, now) == store[k].expires # NoneInt /\ store[k].expires <= now

\* C3 as stated: in a sequential execution a claim of a key that an earlier
\* claim has claimed for c1 fails with the already-claimed error, and the row
\* still records c1 and the time of the first claim.
C3_SecondClaimAlreadyClaimed ==
    [][\A p \in Procs : \A k \in DOMAIN store : \A i \in EventsOf(store[k].id) :
          (Checks(p) /\ loc[p].keystring = k)
          => (/\ ret'[p] = [res |-> "AlreadyClaimed", key |-> k]
              /\ store' = store
              /\ store'[k].claimed_by = events[i].claimant
              /\ store'[k].claimed = events[i].sender.claimed)]_vars

\* C3, amended: the second claim fails, with the expired error when the key
\* is past its expiry at the time of the second claim and with the
\* already-claimed error otherwise, and the row still records c1 and the time
\* of the first claim.
C3_SecondClaimFails ==
    [][\A p \in Procs : \A k \in DOMAIN store : \A i \in EventsOf(store[k].id) :
          (Checks(p) /\ loc[p].keystring = k)
          => (/\ ret'[p] = [res |-> IF IsExpired(k, loc[p].now) THEN "Expired"
                                    ELSE "AlreadyClaimed",
                            key |-> k]
              /\ pc'[p] = "idle"
              /\ store' = store
              /\ store'[k].claimed_by = events[i].claimant
              /\ store'[k].claimed = events[i].sender.claimed)]_vars

\* A second claim of a claimed key has failed.
C3_Witness ==
    \E k \in DOMAIN store :
        /\ EventsOf(store[k].id) # {}
        /\ ret[1] = [res |-> "AlreadyClaimed", key |-> k]

\* C4: a claim of a key whose expires is set and <= the claim's now fails with
\* the expired error and writes nothing, whether the key is claimed or not.
C4_ExpiredClaimFails ==
    [][\A p \in Procs : \A k \in DOMAIN store :
          (Checks(p) /\ loc[p].keystring = k /\ IsExpired(k, loc[p].now))
          => (/\ ret'[p] = [res |-> "Expired", key |-> k]
              /\ pc'[p] = "idle"
              /\ store' = store
              /\ events' = events)]_vars

\* A claim at the very minute of expiry of a never claimed key has failed.
C4_Witness ==
    \E p \in Procs : \E k \in DOMAIN store :
        /\ ret[p] = [res |-> "Expired", key |-> k]
        /\ store[k].expires = clock
        /\ store[k].claimed = NoneInt
        /\ store[k].claimed_by = None

\* C5: a claim with a key string that no row carries fails with the
\* does-not-exist error, whoever the claimant is.
C5_UnknownKeyFails ==
    [][\A p \in Procs :
          (Checks(p) /\ loc[p].keystring \notin DOMAIN store)
          => (/\ ret'[p] = [res |-> "DoesNotExist", key |-> loc[p].keystring]
              /\ pc'[p] = "idle"
              /\ store' = store
              /\ events' = events)]_vars

\* A claim has failed on a key string that is not in the table, while another
\* key is.
C5_Witness ==
    \E p \in Procs :
        /\ ret[p].res = "DoesNotExist"
        /\ ret[p].key \notin DOMAIN store
        /\ DOMAIN store # {}

\* C6: every stored key's expires, when set, is its pub_date plus the ttl its
\* group had when the key was generated.
C6_ExpiresFromCreationTtl ==
    \A k \in DOMAIN store :
        store[k].expires # NoneInt
        => (/\ created_ttl[store[k].id] # NoneInt
            /\ store[k].expires = store[k].pub_date + created_ttl[store[k].id])

\* Handler p returns from generate() in this step, with key string k.
Generates(p, k) ==
    /\ pc[p] \in {"save1", "save2"}
    /\ loc[p].op = "generate"
    /\ ret'[p] = [res |-> "generated", key |-> k]

\* C7: generate() returns a stored key whose expires is pub_date + ttl when
\* the group's ttl is not None, and None exactly when the ttl is None.
C7_GenerateSetsExpires ==
    [][\A p \in Procs : \A k \in KeyStrings :
          Generates(p, k)
          => (/\ k \in DOMAIN store'
              /\ store'[k].id = IF loc[p].key.id = NoneInt THEN nextId ELSE loc[p].key.id
              /\ IF loc[p].grp.ttl # NoneInt
                 THEN store'[k].expires = store'[k].pub_date + loc[p].grp.ttl
                 ELSE store'[k].expires = NoneInt)]_vars

\* C8: no stored key of a group with has_fact has an empty fact.
C8_FactRequired ==
    \A k \in DOMAIN store :
        groups[store[k].group].has_fact => store[k].fact # None

\* C9: available() is the set of stored keys with no claimed and with expires
\* None or after now; it is disjoint from expired() and from claimed(), and
\* the three cover the table.
C9_FiltersPartition ==
    /\ available(store, clock)
         = {k \in DOMAIN store : store[k].claimed = NoneInt /\ ~IsExpired(k, clock)}
    /\ available(store, clock) \cap expired(store, clock) = {}
    /\ available(store, clock) \cap claimed(store) = {}
    /\ available(store, clock) \cup expired(store, clock) \cup claimed(store) = DOMAIN store

\* One key is available while another is both claimed and expired.
C9_Witness ==
    \E k1, k2 \in DOMAIN store :
        /\ k1 \in available(store, clock)
        /\ store[k1].expires # NoneInt
        /\ k2 \in expired(store, clock) \cap claimed(store)

\* Handler p sends the key_claimed signal in this step.
Sends(p) == pc[p] = "claim_send" /\ pc'[p] # "claim_send"

\* C10: a successful claim sends exactly one signal, carrying the key, its
\* group and the claimant, and the signal is sent for a key that is stored as
\* claimed.
C10_SignalAfterPersist ==
    [][\A p \in Procs :
          Sends(p)
          => (/\ Len(events') = Len(events) + 1
              /\ SubSeq(events', 1, Len(events)) = events
              /\ events'[Len(events')].sender = loc[p].key
              /\ events'[Len(events')].claimant = loc[p].claimant
              /\ events'[Len(events')].group = loc[p].grp
              /\ ret'[p] = [res |-> "ok", key |-> loc[p].keystring]
              /\ loc[p].key.key = loc[p].keystring
              /\ loc[p].keystring \in DOMAIN store
              /\ loc[p].grp.name = store[loc[p].keystring].group
              /\ store[loc[p].keystring].id = loc[p].key.id
              /\ store[loc[p].keystring].claimed # NoneInt
              /\ store[loc[p].keystring].claimed_by # None)]_vars

\* C11: when receivers of key_claimed raise during the dispatch, every
\* receiver is still called, the claim returns the key, and the table is left
\* as the claim's save wrote it.
C11_FailingReceiver ==
    [][\A p \in Procs :
          Sends(p)
          => (/\ Len(events') = Len(events) + 1
              /\ DOMAIN events'[Len(events')].responses = DOMAIN Receivers
              /\ ret'[p] = [res |-> "ok", key |-> loc[p].keystring]
              /\ store' = store)]_vars

\* A claim has returned the key although the first receiver raised, and the
\* second receiver was called after it; the key is stored as claimed.
C11_Witness ==
    \E i \in 1..Len(events) : \E p \in Procs :
        /\ events[i].responses = <<"error", "ok">>
        /\ ret[p] = [res |-> "ok", key |-> events[i].sender.key]
        /\ events[i].sender.key \in DOMAIN store
        /\ store[events[i].sender.key].claimed = events[i].sender.claimed
        /\ store[events[i].sender.key].claimed_by = events[i].claimant

\* C12: delete_expired() never deletes a key that is mid-claim: a claim that
\* returns the key leaves the row it looked up in the table, claimed by its
\* claimant, with pub_date and expires as the lookup found them.
C12_SweepSparesMidClaim ==
    [][\A p \in Procs :
          Sends(p)
          => (LET k == loc[p].keystring IN
              /\ k \in DOMAIN store'
              /\ store'[k].id = loc[p].found.id
              /\ store'[k].claimed_by = loc[p].claimant
              /\ store'[k].pub_date = loc[p].found.pub_date
              /\ store'[k].expires = loc[p].found.expires)]_vars

\* C13: in a sequential execution a claim passes its checks exactly when its
\* key is in available() at the claim's now, and a claim past its checks
\* returns the key; the claimant plays no part.
C13_SucceedsIffAvailable ==
    [][\A p \in Procs :
          /\ Checks(p)
             => /\ (pc'[p] = "save1") = (loc[p].keystring \in available(store, loc[p].now))
                /\ (pc'[p] # "save1")
                   => (pc'[p] = "idle" /\ ret'[p].res \in {"DoesNotExist", "Expired", "AlreadyClaimed"})
          /\ (loc[p].op = "claim" /\ pc[p] \in {"save1", "save2", "claim_send"} /\ pc'[p] = "idle")
             => ret'[p] = [res |-> "ok", key |-> loc[p].keystring]]_vars

\* The second claimant has claimed a key, and it is no longer available.
C13_Witness ==
    \E k \in DOMAIN store :
        /\ ret[1] = [res |-> "ok", key |-> k]
        /\ store[k].claimed_by = "u2"
        /\ k \notin available(store, clock)

\* C14: on every stored key claimed_by is set exactly when claimed is set.
C14_ClaimedByIffClaimed ==
    \A k \in DOMAIN store :
        (store[k].claimed_by # None) = (store[k].claimed # NoneInt)

\* Handler p calls generate() in this step and generate() raises at once.
GenerateRaises(p) == pc[p] = "idle" /\ pc'[p] = "idle" /\ ret'[p] # ret[p]

\* C15: generate() for a group whose generator is not registered fails with
\* the unknown-generator error and stores nothing.
C15_UnknownGenerator ==
    [][\A p \in Procs :
          GenerateRaises(p)
          => (ret'[p].res = "UnknownGenerator" /\ store' = store)]_vars

\* C16: claim() tests the expiry before the claimed column: a claim of a key
\* that is claimed and expired fails with the expired error, and the
\* already-claimed error is returned only for a claimed key that is not
\* expired.
C16_ExpiryBeforeClaimed ==
    [][\A p \in Procs : \A k \in DOMAIN store :
          (Checks(p) /\ loc[p].keystring = k)
          => (/\ (store[k].claimed # NoneInt /\ IsExpired(k, loc[p].now))
                 => ret'[p].res = "Expired"
              /\ (ret'[p].res = "AlreadyClaimed")
                 = (store[k].claimed # NoneInt /\ ~IsExpired(k, loc[p].now)))]_vars

\* A claim of a key that is claimed and expired has failed as expired.
C16_Witness ==
    \E p \in Procs : \E k \in DOMAIN store :
        /\ ret[p] = [res |-> "Expired", key |-> k]
        /\ store[k].claimed # NoneInt
        /\ store[k].expires <= clock

\* This step is a call of delete_expired().
Sweeps == ops' # ops /\ pc' = pc /\ groups' = groups

\* C17: delete_expired() removes exactly the keys in expired() at the time of
\* the call, claimed ones included, and leaves every other row as it was.
C17_DeletesExactlyExpired ==
    [][Sweeps
       => (/\ DOMAIN store' = DOMAIN store \ expired(store, clock)
           /\ \A k \in DOMAIN store' : store'[k] = store[k])]_vars

\* A key that was claimed is no longer in the table.
C17_Witness ==
    \E i \in 1..Len(events) : events[i].sender.key \notin DOMAIN store

\* C18: a claim that fails as not found, expired or already claimed leaves
\* the table unchanged and sends no signal.
C18_FailedClaimWritesNothing ==
    [][\A p \in Procs :
          (Checks(p) /\ pc'[p] = "idle")
          => (/\ ret'[p].res \in {"DoesNotExist", "Expired", "AlreadyClaimed"}
              /\ store' = store
              /\ events' = events)]_vars

\* A claim of an expired key has failed and the key is still in the table.
C18_Witness ==
    \E p \in Procs :
        /\ ret[p].res = "Expired"
        /\ ret[p].key \in DOMAIN store
        /\ events = <<>>

\* C19: at most one signal is ever sent per key, and its claimant is the
\* claimed_by of the stored key from then on.
C19_OneSignalPerKey ==
    /\ \A i, j \in 1..Len(events) :
          events[i].sender.id = events[j].sender.id => i = j
    /\ \A k \in DOMAIN store : \A i \in EventsOf(store[k].id) :
          store[k].claimed_by = events[i].claimant

\* C20: every stored key that is claimed and has expires set was claimed
\* before its expiry.
C20_ClaimedBeforeExpiry ==
    \A k \in DOMAIN store :
        (store[k].claimed # NoneInt /\ store[k].expires # NoneInt)
        => store[k].claimed < store[k].expires
====
